---- MODULE Spec2Model ----
(***************************************************************************)
(* Monitor evaluation and alarm lifecycle engine of media-net              *)
(* (src/src/services/anomaly.ts).                                          *)
(*                                                                         *)
(* The record store (monitor states, alarms) is the cookie-backed store    *)
(* of utils/storage: two arrays, upserted by key.  The metric source       *)
(* (generateCurrentMetricValue / generateExpectedValue) and the insight    *)
(* call (generateAlarmInsights) are external collaborators: their results  *)
(* are drawn from small sets.  Every await of the code is a point where    *)
(* another call may run; the code between two awaits is one atomic step.   *)
(*                                                                         *)
(* Numbers: metric values are integers, a deviation is an integer          *)
(* percentage (the inputs are chosen so that the division is exact), the   *)
(* anomaly score is kept in hundredths, timestamps are clock ticks.        *)
(* Display-only fields of the records (names, campaign id, updatedAt) are  *)
(* not kept.                                                               *)
(***************************************************************************)
EXTENDS Integers, Sequences, FiniteSets, TLC

\* ------------------------------------------------------------------ bounds
MaxAlarms == 2      \* alarms ever created
MaxClock == 1       \* last clock tick

\* the evaluation calls that may be in progress at once (two refreshes)
Calls == {"A", "B"}
AlarmIds == 1..MaxAlarms
Times == 0..MaxClock

\* ------------------------------------------------------- absent / undefined
NoTime == -1                      \* resolvedAt?: undefined
NoCount == -1                     \* dataPointsBreached?: undefined
NoMethod == "undefined"           \* resolutionMethod?: undefined
NoDimensions == <<>>              \* dimensions?: undefined
NoAlarm == [id |-> 0]             \* alarm?: undefined

\* ----------------------------------------------------------------- campaign
defaultDailyBudget == 1000

\* a campaign, as far as the engine reads it: campaign.dailyBudget
Campaign(budget) == [dailyBudget |-> budget]

Abs(x) == IF x < 0 THEN -x ELSE x

\* ------------------------------------------------------------ utils/helpers
\* getSensitivityThreshold with the Loose tolerance of the Balanced case
getSensitivityThresholdLooseAsBalanced(sensitivity) ==
    CASE sensitivity = "Strict" -> 15
      [] sensitivity = "Balanced" -> 25
      [] sensitivity = "Loose" -> 25

getSensitivityThreshold(sensitivity) ==
    CASE sensitivity = "Strict" -> 15
      [] sensitivity = "Balanced" -> 25
      [] sensitivity = "Loose" -> 40

\* calculateDeviation that takes a zero baseline for a full deviation
calculateDeviationZeroAsFull(current, expected) ==
    IF expected = 0 THEN 100 ELSE ((current - expected) * 100) \div expected

calculateDeviation(current, expected) ==
    IF expected = 0 THEN 0 ELSE ((current - expected) * 100) \div expected

\* isInAlarm with deviation >= threshold
isInAlarmInclusive(current, expected, sensitivity) ==
    Abs(calculateDeviation(current, expected)) >= getSensitivityThreshold(sensitivity)

isInAlarm(current, expected, sensitivity) ==
    Abs(calculateDeviation(current, expected)) > getSensitivityThreshold(sensitivity)

\* calculateSeverity with the HIGH band starting at 50
calculateSeverityHighFrom50(deviation) ==
    LET absDeviation == Abs(deviation)
    IN  IF absDeviation >= 60 THEN "CRITICAL"
        ELSE IF absDeviation >= 50 THEN "HIGH"
        ELSE IF absDeviation >= 25 THEN "MEDIUM"
        ELSE "LOW"

\* calculateSeverity with exclusive lower bounds
calculateSeverityExclusive(deviation) ==
    IF Abs(deviation) > 60 THEN "CRITICAL"
    ELSE IF Abs(deviation) > 40 THEN "HIGH"
    ELSE IF Abs(deviation) > 25 THEN "MEDIUM"
    ELSE "LOW"

calculateSeverity(deviation) ==
    IF Abs(deviation) >= 60 THEN "CRITICAL"
    ELSE IF Abs(deviation) >= 40 THEN "HIGH"
    ELSE IF Abs(deviation) >= 25 THEN "MEDIUM"
    ELSE "LOW"

\* Array.prototype.slice(start) for a possibly negative start
SliceFrom(s, start) ==
    LET from == IF start < 0 THEN (IF Len(s) + start < 0 THEN 0 ELSE Len(s) + start)
                ELSE (IF start > Len(s) THEN Len(s) ELSE start)
    IN  SubSeq(s, from + 1, Len(s))


\* ------------------------------------------------------------ utils/storage
NoMonitorState == [monitorId |-> 0, state |-> "undefined", enteredStateAt |-> NoTime]

\* states.find((s) => s.monitorId === monitorId)
getMonitorState(ms, monitorId) ==
    IF \E i \in 1..Len(ms) : ms[i].monitorId = monitorId
    THEN ms[CHOOSE i \in 1..Len(ms) : /\ ms[i].monitorId = monitorId
                                      /\ \A j \in 1..(i - 1) : ms[j].monitorId # monitorId]
    ELSE NoMonitorState

\* upsert by monitorId
saveMonitorState(ms, state) ==
    IF \E i \in 1..Len(ms) : ms[i].monitorId = state.monitorId
    THEN LET index == CHOOSE i \in 1..Len(ms) :
                         /\ ms[i].monitorId = state.monitorId
                         /\ \A j \in 1..(i - 1) : ms[j].monitorId # state.monitorId
         IN  [ms EXCEPT ![index] = state]
    ELSE Append(ms, state)

\* alarms.find((a) => a.id === id)
HasAlarm(al, id) == \E i \in 1..Len(al) : al[i].id = id

getAlarm(al, id) ==
    al[CHOOSE i \in 1..Len(al) : /\ al[i].id = id
                                 /\ \A j \in 1..(i - 1) : al[j].id # id]

\* saveAlarm with the upsert keyed by the monitor instead of the alarm id
saveAlarmByMonitor(al, alarm) ==
    IF \E i \in 1..Len(al) : al[i].monitorId = alarm.monitorId
    THEN LET index == CHOOSE i \in 1..Len(al) :
                         /\ al[i].monitorId = alarm.monitorId
                         /\ \A j \in 1..(i - 1) : al[j].monitorId # alarm.monitorId
         IN  [al EXCEPT ![index] = alarm]
    ELSE Append(al, alarm)

\* upsert by id
saveAlarm(al, alarm) ==
    IF HasAlarm(al, alarm.id)
    THEN LET index == CHOOSE i \in 1..Len(al) : /\ al[i].id = alarm.id
                                                /\ \A j \in 1..(i - 1) : al[j].id # alarm.id
         IN  [al EXCEPT ![index] = alarm]
    ELSE Append(al, alarm)

\* ------------------------------------------------------ monitors, campaign
NoConfig == [n |-> 0, m |-> 0]    \* compositeConfig?: undefined
Devices == <<"desktop", "mobile">>

Monitor(id, metricId, type, enabled, sensitivity, config, dimensions) ==
    [id |-> id, metricId |-> metricId, monitorType |-> type, enabled |-> enabled,
     sensitivity |-> sensitivity, compositeConfig |-> config,
     granularDimensions |-> dimensions]

SimpleMonitor == Monitor(1, "cpa", "SIMPLE", TRUE, "Balanced", NoConfig, <<>>)
CompositeMonitor == Monitor(1, "ctr", "COMPOSITE", TRUE, "Balanced", [n |-> 2, m |-> 3], <<>>)
GranularMonitor == Monitor(1, "impressions", "GRANULAR", TRUE, "Loose", NoConfig, <<"device">>)

\* What the metric source returns in a run: generateCurrentMetricValue (which
\* ends in Math.max(0, value)) and generateExpectedValue draw from these sets;
\* fails: a read of the source may throw.
Source(current, expected) == [current |-> current, expected |-> expected, fails |-> FALSE]
FailingSource(current, expected) ==
    [current |-> current, expected |-> expected, fails |-> TRUE]

\* A run's campaign: its monitor list, the stored samples of the composite
\* monitor's metric (oldest first), and its metric source.
Scenario(list, samples, src) ==
    [campaign |-> Campaign(defaultDailyBudget), monitors |-> list, history |-> samples,
     source |-> src]

Scenarios ==
    { Scenario(<<SimpleMonitor>>, <<>>, Source({100, 126}, {100})),
      Scenario(<<CompositeMonitor>>, <<100, 126>>, Source({100, 126}, {100})),
      Scenario(<<CompositeMonitor>>, <<126, 126, 126>>, Source({100, 126}, {100})),
      Scenario(<<GranularMonitor>>, <<>>, Source({100, 126}, {100})) }

\* ---- scenarios for the value rules (threshold, severity, impact, N of M)
MaxCurrent == 170   \* largest current value of a sample
MaxHistory == 3     \* most stored samples of a composite monitor's metric

Sensitivities == {"Strict", "Balanced", "Loose"}
\* the metric ids that calculateEstimatedImpact names, and one it does not
MetricIds == {"cpa", "ctr", "cvr", "impressions", "clicks", "spend", "invalid_traffic",
              "cpc"}
Budgets == {0, defaultDailyBudget, 2 * defaultDailyBudget}
CurrentValues == 0..MaxCurrent
ExpectedValues == {0, 20, 30, 100, 250}

\* the deviation of current from expected is a whole percentage
WholePercent(current, expected) ==
    expected = 0 \/ ((current - expected) * 100) % expected = 0

ValuePairs ==
    {p \in CurrentValues \X ExpectedValues : WholePercent(p[1], p[2])}

ValueScenario(budget, metricId, sensitivity, current, expected) ==
    [campaign |-> Campaign(budget),
     monitors |-> <<Monitor(1, metricId, "SIMPLE", TRUE, sensitivity, NoConfig, <<>>)>>,
     history |-> <<>>,
     source |-> Source({current}, {expected})]

\* one SIMPLE monitor and one sample: every sensitivity on one metric, and every
\* metric and budget under the strictest sensitivity
SimpleValueScenarios ==
    {ValueScenario(defaultDailyBudget, "cpa", s, p[1], p[2]) :
        s \in Sensitivities, p \in ValuePairs}
    \cup
    {ValueScenario(b, metricId, "Strict", p[1], p[2]) :
        b \in Budgets, metricId \in MetricIds, p \in ValuePairs}

\* the stored samples of a metric: at most MaxHistory values, breaching or not
Histories ==
    UNION {[1..len -> {100, 126}] : len \in 0..MaxHistory}

CompositeConfigs == {[n |-> 1, m |-> 1], [n |-> 1, m |-> 2], [n |-> 2, m |-> 3],
                     [n |-> 3, m |-> 3]}

\* one COMPOSITE monitor, its N of M configuration, the stored samples and
\* the current sample
CompositeValueScenarios ==
    {[campaign |-> Campaign(defaultDailyBudget),
      monitors |-> <<Monitor(1, "ctr", "COMPOSITE", TRUE, "Balanced", cfg, <<>>)>>,
      history |-> h,
      source |-> Source({current}, {100})] :
        cfg \in CompositeConfigs, h \in Histories, current \in {100, 126}}

\* one GRANULAR monitor (by device) and one sample against the expected value
\* 100, under every sensitivity
GranularValueScenarios ==
    {[campaign |-> Campaign(defaultDailyBudget),
      monitors |-> <<Monitor(1, "impressions", "GRANULAR", TRUE, s, NoConfig, <<"device">>)>>,
      history |-> <<>>,
      source |-> Source({p[1]}, {p[2]})] :
        s \in Sensitivities, p \in {q \in ValuePairs : q[2] = 100}}

ValueScenarios ==
    SimpleValueScenarios \cup CompositeValueScenarios \cup GranularValueScenarios

\* ---- scenarios for a batch: two monitors in the list of evaluateAllMonitors
BatchMonitor(id, type, enabled) ==
    Monitor(id, "cpa", type, enabled, "Balanced", NoConfig, <<>>)

\* two enabled monitors and a metric source whose reads may fail; a disabled
\* monitor before and after an enabled one; a COMPOSITE monitor without
\* compositeConfig before an enabled SIMPLE one; a COMPOSITE monitor (2 of 3)
\* with two breaching samples stored and a metric source whose reads may fail
BatchScenarios ==
    { Scenario(<<BatchMonitor(1, "SIMPLE", TRUE), BatchMonitor(2, "SIMPLE", TRUE)>>,
               <<>>, FailingSource({100, 126}, {100})),
      Scenario(<<BatchMonitor(1, "SIMPLE", FALSE), BatchMonitor(2, "SIMPLE", TRUE)>>,
               <<>>, Source({100, 126}, {100})),
      Scenario(<<BatchMonitor(1, "SIMPLE", TRUE), BatchMonitor(2, "SIMPLE", FALSE)>>,
               <<>>, Source({100, 126}, {100})),
      Scenario(<<BatchMonitor(1, "COMPOSITE", TRUE), BatchMonitor(2, "SIMPLE", TRUE)>>,
               <<126, 126>>, Source({100, 126}, {100})),
      Scenario(<<CompositeMonitor>>, <<126, 126>>, FailingSource({100, 126}, {100})) }

\* ---- scenarios for refreshes: evaluateAllMonitors called by refreshData
GranularBalancedMonitor ==
    Monitor(1, "impressions", "GRANULAR", TRUE, "Balanced", NoConfig, <<"device">>)

\* one monitor of each kind (the COMPOSITE one, 2 of 3, over stored samples
\* that never breach and over samples of which one breaches), and two enabled
\* SIMPLE monitors
RefreshScenarios ==
    { Scenario(<<SimpleMonitor>>, <<>>, Source({100, 126}, {100})),
      Scenario(<<CompositeMonitor>>, <<100, 100>>, Source({100, 126}, {100})),
      Scenario(<<CompositeMonitor>>, <<100, 126>>, Source({100, 126}, {100})),
      Scenario(<<GranularBalancedMonitor>>, <<>>, Source({100, 126}, {100})),
      Scenario(<<BatchMonitor(1, "SIMPLE", TRUE), BatchMonitor(2, "SIMPLE", TRUE)>>,
               <<>>, Source({100, 126}, {100})) }

\* ---- scenarios for the alarm summary: two Strict SIMPLE monitors whose
\* samples reach every severity band (20 and 70 percent above 100, or within
\* tolerance; 26 and 45 percent above 100)
SummaryMonitor(id) == Monitor(id, "cpa", "SIMPLE", TRUE, "Strict", NoConfig, <<>>)

SummaryScenarios ==
    { Scenario(<<SummaryMonitor(1), SummaryMonitor(2)>>, <<>>, Source({100, 120, 170}, {100})),
      Scenario(<<SummaryMonitor(1), SummaryMonitor(2)>>, <<>>, Source({126, 145}, {100})) }

\* ------------------------------------------------------- services/anomaly
\* allValues.slice(-m).forEach: the number of values that breach
RECURSIVE CountBreaches(_, _, _)
CountBreaches(values, expectedValue, sensitivity) ==
    IF values = <<>> THEN 0
    ELSE (IF isInAlarm(Head(values), expectedValue, sensitivity) THEN 1 ELSE 0)
         + CountBreaches(Tail(values), expectedValue, sensitivity)

\* evaluateCompositeCondition that counts over every stored sample
evaluateCompositeConditionNoWindow(monitor, historical, currentValue, expectedValue) ==
    IF monitor.compositeConfig = NoConfig
    THEN [breached |-> FALSE, count |-> 0]
    ELSE LET breachCount == CountBreaches(Append(historical, currentValue), expectedValue,
                                          monitor.sensitivity)
         IN  [breached |-> breachCount >= monitor.compositeConfig.n,
              count |-> breachCount]

evaluateCompositeCondition(monitor, historical, currentValue, expectedValue) ==
    IF monitor.compositeConfig = NoConfig
    THEN [breached |-> FALSE, count |-> 0]
    ELSE LET n == monitor.compositeConfig.n
             m == monitor.compositeConfig.m
             historicalValues == SliceFrom(historical, -m + 1)
             allValues == Append(historicalValues, currentValue)
             breachCount == CountBreaches(SliceFrom(allValues, -m), expectedValue,
                                          monitor.sensitivity)
         IN  [breached |-> breachCount >= n, count |-> breachCount]

\* The per-device results of one evaluation (the sampled values are not kept).
\* Math.random() decides each flag; two of the assignments are explored.
GranularChoices(monitor) ==
    IF monitor.monitorType = "GRANULAR" /\ monitor.granularDimensions # <<>>
    THEN { [i \in 1..Len(Devices) |-> [device |-> Devices[i], inAlarm |-> f[i]]] :
             f \in {<<FALSE, FALSE>>, <<TRUE, FALSE>>} }
    ELSE { NoDimensions }

\* calculateEstimatedImpact without Math.abs
calculateEstimatedImpactSigned(campaign, monitor, deviationPercent) ==
    LET dailyBudget == campaign.dailyBudget
        metricId == monitor.metricId
    IN
    CASE metricId = "cpa" ->
           IF deviationPercent > 0 THEN (dailyBudget * deviationPercent) \div 100 ELSE 0
      [] metricId \in {"ctr", "cvr"} ->
           IF deviationPercent < 0 THEN (dailyBudget * deviationPercent * 5) \div 1000 ELSE 0
      [] metricId \in {"impressions", "clicks"} ->
           IF deviationPercent < 0 THEN (dailyBudget * deviationPercent * 3) \div 1000 ELSE 0
      [] metricId = "spend" -> (dailyBudget * deviationPercent) \div 100
      [] metricId = "invalid_traffic" ->
           IF deviationPercent > 0 THEN (dailyBudget * deviationPercent) \div 100 ELSE 0
      [] OTHER -> (dailyBudget * deviationPercent * 2) \div 1000

\* calculateEstimatedImpact with the generic rule for every metric
calculateEstimatedImpactGeneric(campaign, monitor, deviationPercent) ==
    (campaign.dailyBudget * Abs(deviationPercent) * 2) \div 1000

calculateEstimatedImpact(campaign, monitor, deviationPercent) ==
    LET dailyBudget == campaign.dailyBudget
        metricId == monitor.metricId
    IN
    CASE metricId = "cpa" ->
           IF deviationPercent > 0 THEN (dailyBudget * Abs(deviationPercent)) \div 100 ELSE 0
      [] metricId \in {"ctr", "cvr"} ->
           IF deviationPercent < 0
           THEN (dailyBudget * Abs(deviationPercent) * 5) \div 1000 ELSE 0
      [] metricId \in {"impressions", "clicks"} ->
           IF deviationPercent < 0
           THEN (dailyBudget * Abs(deviationPercent) * 3) \div 1000 ELSE 0
      [] metricId = "spend" -> (dailyBudget * Abs(deviationPercent)) \div 100
      [] metricId = "invalid_traffic" ->
           IF deviationPercent > 0 THEN (dailyBudget * Abs(deviationPercent)) \div 100 ELSE 0
      [] OTHER -> (dailyBudget * Abs(deviationPercent) * 2) \div 1000

\* NewState with a GRANULAR monitor put IN_ALARM by a breaching dimension
NewStateDimensionAlarm(ms, monitor, historical, currentValue, expectedValue, dimensions, timestamp) ==
    LET deviation == calculateDeviation(currentValue, expectedValue)
        inAlarm == isInAlarm(currentValue, expectedValue, monitor.sensitivity)
        anomalyScore == (Abs(deviation) * 100) \div getSensitivityThreshold(monitor.sensitivity)
        previousState == getMonitorState(ms, monitor.id)
        wasInAlarm == previousState.state = "IN_ALARM"
        composite == evaluateCompositeCondition(monitor, historical, currentValue,
                                                expectedValue)
        isComposite == monitor.monitorType = "COMPOSITE" /\ monitor.compositeConfig # NoConfig
    IN  [monitorId |-> monitor.id,
         state |-> IF isComposite
                   THEN (IF composite.breached THEN "IN_ALARM" ELSE "OK")
                   ELSE (IF inAlarm \/ \E d \in 1..Len(dimensions) : dimensions[d].inAlarm
                         THEN "IN_ALARM" ELSE "OK"),
         currentValue |-> currentValue,
         expectedValue |-> expectedValue,
         anomalyScore |-> anomalyScore,
         enteredStateAt |-> IF inAlarm /\ ~wasInAlarm THEN timestamp
                            ELSE IF previousState.enteredStateAt # NoTime
                                 THEN previousState.enteredStateAt
                                 ELSE timestamp,
         dataPointsBreached |-> IF isComposite THEN composite.count ELSE NoCount,
         dimensions |-> dimensions]

\* the MonitorStateData that evaluateMonitor builds (lines 114-153)
NewState(ms, monitor, historical, currentValue, expectedValue, dimensions, timestamp) ==
    LET deviation == calculateDeviation(currentValue, expectedValue)
        inAlarm == isInAlarm(currentValue, expectedValue, monitor.sensitivity)
        anomalyScore == (Abs(deviation) * 100) \div getSensitivityThreshold(monitor.sensitivity)
        previousState == getMonitorState(ms, monitor.id)
        wasInAlarm == previousState.state = "IN_ALARM"
        composite == evaluateCompositeCondition(monitor, historical, currentValue,
                                                expectedValue)
        isComposite == monitor.monitorType = "COMPOSITE" /\ monitor.compositeConfig # NoConfig
    IN  [monitorId |-> monitor.id,
         state |-> IF isComposite
                   THEN (IF composite.breached THEN "IN_ALARM" ELSE "OK")
                   ELSE (IF inAlarm THEN "IN_ALARM" ELSE "OK"),
         currentValue |-> currentValue,
         expectedValue |-> expectedValue,
         anomalyScore |-> anomalyScore,
         enteredStateAt |-> IF inAlarm /\ ~wasInAlarm THEN timestamp
                            ELSE IF previousState.enteredStateAt # NoTime
                                 THEN previousState.enteredStateAt
                                 ELSE timestamp,
         dataPointsBreached |-> IF isComposite THEN composite.count ELSE NoCount,
         dimensions |-> dimensions]

\* the alarm object of createAlarmFromMonitor before the insight call (lines 254-271)
NewAlarm(id, monitor, campaign, state) ==
    LET deviation == calculateDeviation(state.currentValue, state.expectedValue)
    IN  [id |-> id,
         monitorId |-> monitor.id,
         severity |-> calculateSeverity(deviation),
         state |-> "ACTIVE",
         triggeredAt |-> state.enteredStateAt,
         resolvedAt |-> NoTime,
         resolutionMethod |-> NoMethod,
         currentValue |-> state.currentValue,
         expectedValue |-> state.expectedValue,
         deviationPercent |-> deviation,
         dimensionalBreakdown |-> state.dimensions,
         estimatedImpactUSD |-> calculateEstimatedImpact(campaign, monitor, deviation),
         insights |-> FALSE]

\* resolveAlarm without the test that the alarm is ACTIVE
resolveAlarmAnyState(al, alarmId, method, now) ==
    IF HasAlarm(al, alarmId)
    THEN saveAlarm(al, [getAlarm(al, alarmId) EXCEPT !.state = "RESOLVED",
                                                     !.resolvedAt = now,
                                                     !.resolutionMethod = method])
    ELSE al

\* the store after resolveAlarm(alarmId, method) at time now
resolveAlarm(al, alarmId, method, now) ==
    IF HasAlarm(al, alarmId) /\ getAlarm(al, alarmId).state = "ACTIVE"
    THEN saveAlarm(al, [getAlarm(al, alarmId) EXCEPT !.state = "RESOLVED",
                                                     !.resolvedAt = now,
                                                     !.resolutionMethod = method])
    ELSE al

\* dismissAlarm without the test that the alarm is ACTIVE
dismissAlarmAnyState(al, alarmId, now) ==
    IF HasAlarm(al, alarmId)
    THEN saveAlarm(al, [getAlarm(al, alarmId) EXCEPT !.state = "DISMISSED",
                                                     !.resolvedAt = now,
                                                     !.resolutionMethod = "DISMISSED"])
    ELSE al

\* dismissAlarm that forgets to set resolvedAt
dismissAlarmNoResolvedAt(al, alarmId, now) ==
    IF HasAlarm(al, alarmId) /\ getAlarm(al, alarmId).state = "ACTIVE"
    THEN saveAlarm(al, [getAlarm(al, alarmId) EXCEPT !.state = "DISMISSED",
                                                     !.resolutionMethod = "DISMISSED"])
    ELSE al

\* the store after dismissAlarm(alarmId) at time now
dismissAlarm(al, alarmId, now) ==
    IF HasAlarm(al, alarmId) /\ getAlarm(al, alarmId).state = "ACTIVE"
    THEN saveAlarm(al, [getAlarm(al, alarmId) EXCEPT !.state = "DISMISSED",
                                                     !.resolvedAt = now,
                                                     !.resolutionMethod = "DISMISSED"])
    ELSE al

\* activeAlarms.forEach((alarm) => resolveAlarm(alarm.id, 'AUTO_RESOLVED'))
RECURSIVE ResolveEach(_, _, _)
ResolveEach(al, active, now) ==
    IF active = <<>> THEN al
    ELSE ResolveEach(resolveAlarm(al, Head(active).id, "AUTO_RESOLVED", now),
                     Tail(active), now)

\* autoResolveAlarms that resolves nothing
autoResolveAlarmsNever(al, monitorId, state, now) == al

\* autoResolveAlarms without the filter on the monitor of the alarm
autoResolveAlarmsAnyMonitor(al, monitorId, state, now) ==
    IF state = "OK"
    THEN ResolveEach(al, SelectSeq(al, LAMBDA a : a.state = "ACTIVE"), now)
    ELSE al

\* the store after autoResolveAlarms(monitor, state) at time now
autoResolveAlarms(al, monitorId, state, now) ==
    IF state = "OK"
    THEN ResolveEach(al,
                     SelectSeq(al, LAMBDA a : a.monitorId = monitorId /\ a.state = "ACTIVE"),
                     now)
    ELSE al

\* getAlarmSummary that counts the severities over all alarms, ACTIVE or not
getAlarmSummaryAnyState(al) ==
    [critical |-> Len(SelectSeq(al, LAMBDA a : a.severity = "CRITICAL")),
     high |-> Len(SelectSeq(al, LAMBDA a : a.severity = "HIGH")),
     medium |-> Len(SelectSeq(al, LAMBDA a : a.severity = "MEDIUM")),
     low |-> Len(SelectSeq(al, LAMBDA a : a.severity = "LOW")),
     healthy |-> Len(al) - Len(SelectSeq(al, LAMBDA a : a.state = "ACTIVE"))]

\* getAlarmSummary(alarms) (lines 414-424)
getAlarmSummary(al) ==
    LET activeAlarms == SelectSeq(al, LAMBDA a : a.state = "ACTIVE")
    IN  [critical |-> Len(SelectSeq(activeAlarms, LAMBDA a : a.severity = "CRITICAL")),
         high |-> Len(SelectSeq(activeAlarms, LAMBDA a : a.severity = "HIGH")),
         medium |-> Len(SelectSeq(activeAlarms, LAMBDA a : a.severity = "MEDIUM")),
         low |-> Len(SelectSeq(activeAlarms, LAMBDA a : a.severity = "LOW")),
         healthy |-> Len(al) - Len(activeAlarms)]

\* the test of line 159 without its !wasInAlarm
ShouldCreateAlarmNoPrior(newState, wasInAlarm) == newState.state = "IN_ALARM"

\* line 159: if (newState.state === 'IN_ALARM' && !wasInAlarm)
ShouldCreateAlarm(newState, wasInAlarm) == newState.state = "IN_ALARM" /\ ~wasInAlarm

\* createAlarmFromMonitor without the catch: a rejected insight call loses the alarm
AlarmsAfterInsightsNoCatch(al, alarm, ok) ==
    IF ok THEN saveAlarm(al, [alarm EXCEPT !.insights = ok]) ELSE al

\* lines 273-281: the store once generateAlarmInsights has settled (ok: it
\* resolved and the insights are attached; ~ok: it rejected, which is caught)
AlarmsAfterInsights(al, alarm, ok) == saveAlarm(al, [alarm EXCEPT !.insights = ok])

\* -------------------------------------------------------------------- state
VARIABLES
    campaign,       \* the campaign under evaluation (fixed during a run)
    monitors,       \* the campaign's monitor list (fixed during a run)
    history,        \* stored samples of the composite monitor's metric (fixed)
    source,         \* the values the metric source may return (fixed)
    monitorStates,  \* the store's MonitorStateData array
    alarms,         \* the store's Alarm array
    clock,          \* new Date()
    pc,             \* per call: "idle", "insights" (awaiting generateAlarmInsights),
                    \* "returned" (evaluateMonitor returned, the loop not yet
                    \* resumed), "done" (the call returned to its caller),
                    \* "rejected" (the call threw)
    kind,           \* per call: "all" (evaluateAllMonitors) or "single" (evaluateMonitor)
    idx,            \* per call: index in monitors of the monitor under evaluation
    local,          \* per call: evaluateMonitor's newState.state and wasInAlarm, the
                    \* alarm object under construction, the id of the alarm returned
    states,         \* per call: monitor ids of the states pushed to the result
    newAlarms       \* per call: ids of the alarms pushed to the result

vars == <<campaign, monitors, history, source, monitorStates, alarms, clock, pc, kind, idx,
          local, states, newAlarms>>

NoLocal ==
    [state |-> "undefined", wasInAlarm |-> FALSE, alarm |-> NoAlarm, created |-> 0,
     samplesUnread |-> FALSE]

InitWith(scenarios) ==
    /\ \E sc \in scenarios :
         /\ campaign = sc.campaign
         /\ monitors = sc.monitors
         /\ history = sc.history
         /\ source = sc.source
    /\ monitorStates = <<>>
    /\ alarms = <<>>
    /\ clock = 0
    /\ pc = [c \in Calls |-> "idle"]
    /\ kind = [c \in Calls |-> "all"]
    /\ idx = [c \in Calls |-> 1]
    /\ local = [c \in Calls |-> NoLocal]
    /\ states = [c \in Calls |-> <<>>]
    /\ newAlarms = [c \in Calls |-> <<>>]

Init == InitWith(Scenarios)

\* uuidv4(): an id that no stored alarm and no alarm object in construction has
UsedIds == {alarms[i].id : i \in 1..Len(alarms)} \cup {local[c].alarm.id : c \in Calls}
FreshIds == AlarmIds \ UsedIds
FreshId == CHOOSE id \in FreshIds : \A other \in FreshIds : id <= other

\* The read of the stored samples by evaluateCompositeCondition (line 182) goes
\* through getCookie, which catches a failed read and returns the default, an
\* empty list (lines 1293-1302): the evaluation goes on without samples.
SamplesUnreadChoices(monitor) ==
    IF /\ source.fails
       /\ monitor.monitorType = "COMPOSITE" /\ monitor.compositeConfig # NoConfig
    THEN BOOLEAN ELSE {FALSE}

\* evaluateMonitor(monitors[j]) up to its first await, run by call c of kind k on
\* the alarm store al; sts and nas are the call's result lists so far.  With an
\* alarm to create the call stops at await generateAlarmInsights, the alarm
\* object built and not saved; without one evaluateMonitor returns.
Evaluate(c, j, k, al, sts, nas) ==
    \E currentValue \in source.current, expectedValue \in source.expected,
       dimensions \in GranularChoices(monitors[j]),
       samplesUnread \in SamplesUnreadChoices(monitors[j]) :
        LET monitor == monitors[j]
            wasInAlarm == getMonitorState(monitorStates, monitor.id).state = "IN_ALARM"
            historical == IF samplesUnread THEN <<>> ELSE history
            newState == NewState(monitorStates, monitor, historical, currentValue,
                                 expectedValue, dimensions, clock)
            creates == ShouldCreateAlarm(newState, wasInAlarm)
        IN  /\ creates => FreshIds # {}
            /\ monitorStates' = saveMonitorState(monitorStates, newState)
            /\ alarms' = al
            /\ idx' = [idx EXCEPT ![c] = j]
            /\ kind' = [kind EXCEPT ![c] = k]
            /\ local' = [local EXCEPT ![c] =
                           [state |-> newState.state,
                            wasInAlarm |-> wasInAlarm,
                            alarm |-> IF creates THEN NewAlarm(FreshId, monitor, campaign, newState)
                                      ELSE NoAlarm,
                            created |-> 0,
                            samplesUnread |-> samplesUnread]]
            /\ pc' = [pc EXCEPT ![c] = IF creates THEN "insights"
                                       ELSE IF k = "all" THEN "returned" ELSE "done"]
            /\ states' = [states EXCEPT ![c] = sts]
            /\ newAlarms' = [newAlarms EXCEPT ![c] = nas]

\* the for loop without its test of monitor.enabled
LoopEveryMonitor(c, i, al, sts, nas) ==
    IF i <= Len(monitors)
    THEN Evaluate(c, i, "all", al, sts, nas)
    ELSE /\ pc' = [pc EXCEPT ![c] = "done"]
         /\ kind' = [kind EXCEPT ![c] = "all"]
         /\ idx' = [idx EXCEPT ![c] = 1]
         /\ local' = [local EXCEPT ![c] = NoLocal]
         /\ alarms' = al
         /\ states' = [states EXCEPT ![c] = sts]
         /\ newAlarms' = [newAlarms EXCEPT ![c] = nas]
         /\ UNCHANGED monitorStates

\* the for loop of evaluateAllMonitors from index i on, up to the next await or
\* to the return of {states, newAlarms}
Loop(c, i, al, sts, nas) ==
    IF \E j \in i..Len(monitors) : monitors[j].enabled
    THEN Evaluate(c, CHOOSE j \in i..Len(monitors) :
                        /\ monitors[j].enabled
                        /\ \A e \in i..(j - 1) : ~monitors[e].enabled,
                  "all", al, sts, nas)
    ELSE /\ pc' = [pc EXCEPT ![c] = "done"]
         /\ kind' = [kind EXCEPT ![c] = "all"]
         /\ idx' = [idx EXCEPT ![c] = 1]
         /\ local' = [local EXCEPT ![c] = NoLocal]
         /\ alarms' = al
         /\ states' = [states EXCEPT ![c] = sts]
         /\ newAlarms' = [newAlarms EXCEPT ![c] = nas]
         /\ UNCHANGED monitorStates

\* evaluateMonitor(monitors[j]) when a read of the metric source throws
\* (generateCurrentMetricValue, generateExpectedValue at lines 106-112, the
\* per-device baseline at line 222): every
\* read comes before saveMonitorState (line 155), so nothing is written, and
\* with no try/catch in evaluateMonitor or around the loop of
\* evaluateAllMonitors the promise of the call rejects.
EvaluateFails(c, j, k, al, sts, nas) ==
    /\ source.fails
    /\ monitorStates' = monitorStates
    /\ alarms' = al
    /\ idx' = [idx EXCEPT ![c] = j]
    /\ kind' = [kind EXCEPT ![c] = k]
    /\ local' = [local EXCEPT ![c] = NoLocal]
    /\ pc' = [pc EXCEPT ![c] = "rejected"]
    /\ states' = [states EXCEPT ![c] = sts]
    /\ newAlarms' = [newAlarms EXCEPT ![c] = nas]

\* the for loop of evaluateAllMonitors from index i on, when the evaluation of
\* the next enabled monitor throws
LoopFails(c, i, al, sts, nas) ==
    /\ \E j \in i..Len(monitors) : monitors[j].enabled
    /\ EvaluateFails(c, CHOOSE j \in i..Len(monitors) :
                            /\ monitors[j].enabled
                            /\ \A e \in i..(j - 1) : ~monitors[e].enabled,
                     "all", al, sts, nas)

\* The continuation of await evaluateMonitor(...) is a microtask, and so is the
\* caller's continuation once a call has returned or rejected: a call that is
\* "returned" resumes its loop, and a call that is "done" or "rejected" hands
\* over its outcome, before any later task runs (a new call, a user's
\* operation, the settlement of the insight call, the passing of time).
NoMicrotask == \A c \in Calls : pc[c] \notin {"returned", "done", "rejected"}

\* a caller starts evaluateAllMonitors(campaign, monitors)
StartEvaluateAll(c) ==
    /\ NoMicrotask
    /\ pc[c] = "idle"
    /\ Loop(c, 1, alarms, <<>>, <<>>)
    /\ UNCHANGED <<campaign, monitors, history, source, clock>>

\* a caller starts evaluateMonitor(monitor, campaign) on its own
StartEvaluateMonitor(c) ==
    /\ NoMicrotask
    /\ pc[c] = "idle"
    /\ \E j \in 1..Len(monitors) : Evaluate(c, j, "single", alarms, <<>>, <<>>)
    /\ UNCHANGED <<campaign, monitors, history, source, clock>>

\* a caller starts evaluateAllMonitors and the first evaluation throws
StartEvaluateAllFails(c) ==
    /\ NoMicrotask
    /\ pc[c] = "idle"
    /\ LoopFails(c, 1, alarms, <<>>, <<>>)
    /\ UNCHANGED <<campaign, monitors, history, source, clock>>

\* a caller starts evaluateMonitor on its own and it throws
StartEvaluateMonitorFails(c) ==
    /\ NoMicrotask
    /\ pc[c] = "idle"
    /\ \E j \in 1..Len(monitors) : EvaluateFails(c, j, "single", alarms, <<>>, <<>>)
    /\ UNCHANGED <<campaign, monitors, history, source, clock>>

\* generateAlarmInsights settles; createAlarmFromMonitor saves the alarm and
\* evaluateMonitor returns it
InsightsSettle(c) ==
    /\ NoMicrotask
    /\ pc[c] = "insights"
    /\ \E ok \in BOOLEAN : alarms' = AlarmsAfterInsights(alarms, local[c].alarm, ok)
    /\ local' = [local EXCEPT ![c].alarm = NoAlarm, ![c].created = local[c].alarm.id]
    /\ pc' = [pc EXCEPT ![c] = IF kind[c] = "all" THEN "returned" ELSE "done"]
    /\ UNCHANGED <<campaign, monitors, history, source, monitorStates, clock, kind, idx, states,
                   newAlarms>>

\* evaluateAllMonitors resumes after await evaluateMonitor: pushes the result,
\* auto-resolves, and runs the loop on to the next await
Resume(c) ==
    /\ pc[c] = "returned"
    /\ Loop(c, idx[c] + 1,
            autoResolveAlarms(alarms, monitors[idx[c]].id, local[c].state, clock),
            Append(states[c], monitors[idx[c]].id),
            IF local[c].created # 0 THEN Append(newAlarms[c], local[c].created)
            ELSE newAlarms[c])
    /\ UNCHANGED <<campaign, monitors, history, source, clock>>

\* evaluateAllMonitors resumes after await evaluateMonitor, pushes the result,
\* auto-resolves, and the evaluation of the next enabled monitor throws
ResumeFails(c) ==
    /\ pc[c] = "returned"
    /\ LoopFails(c, idx[c] + 1,
                 autoResolveAlarms(alarms, monitors[idx[c]].id, local[c].state, clock),
                 Append(states[c], monitors[idx[c]].id),
                 IF local[c].created # 0 THEN Append(newAlarms[c], local[c].created)
                 ELSE newAlarms[c])
    /\ UNCHANGED <<campaign, monitors, history, source, clock>>

\* the caller observes the rejection of a call; its partial result is lost
Reject(c) ==
    /\ pc[c] = "rejected"
    /\ pc' = [pc EXCEPT ![c] = "idle"]
    /\ kind' = [kind EXCEPT ![c] = "all"]
    /\ idx' = [idx EXCEPT ![c] = 1]
    /\ local' = [local EXCEPT ![c] = NoLocal]
    /\ states' = [states EXCEPT ![c] = <<>>]
    /\ newAlarms' = [newAlarms EXCEPT ![c] = <<>>]
    /\ UNCHANGED <<campaign, monitors, history, source, monitorStates, alarms, clock>>

\* the caller takes the result of a call that returned; the call's frame is gone
Return(c) ==
    /\ pc[c] = "done"
    /\ pc' = [pc EXCEPT ![c] = "idle"]
    /\ kind' = [kind EXCEPT ![c] = "all"]
    /\ idx' = [idx EXCEPT ![c] = 1]
    /\ local' = [local EXCEPT ![c] = NoLocal]
    /\ states' = [states EXCEPT ![c] = <<>>]
    /\ newAlarms' = [newAlarms EXCEPT ![c] = <<>>]
    /\ UNCHANGED <<campaign, monitors, history, source, monitorStates, alarms, clock>>

\* the user resolves an alarm (any id, stored or not)
UserResolveAlarm ==
    /\ NoMicrotask
    /\ \E alarmId \in 0..MaxAlarms, method \in {"USER_ACTION", "AUTO_RESOLVED"} :
         alarms' = resolveAlarm(alarms, alarmId, method, clock)
    /\ UNCHANGED <<campaign, monitors, history, source, monitorStates, clock, pc, kind, idx,
                   local, states, newAlarms>>

\* the user dismisses an alarm (any id, stored or not)
UserDismissAlarm ==
    /\ NoMicrotask
    /\ \E alarmId \in 0..MaxAlarms : alarms' = dismissAlarm(alarms, alarmId, clock)
    /\ UNCHANGED <<campaign, monitors, history, source, monitorStates, clock, pc, kind, idx,
                   local, states, newAlarms>>

\* time passes
Tick ==
    /\ NoMicrotask
    /\ clock < MaxClock
    /\ clock' = clock + 1
    /\ UNCHANGED <<campaign, monitors, history, source, monitorStates, alarms, pc, kind, idx,
                   local, states, newAlarms>>

\* One evaluation call at a time (call "A"); the user's operations and the
\* clock run freely, also while the call awaits the insights.
Next ==
    \/ StartEvaluateAll("A")
    \/ StartEvaluateMonitor("A")
    \/ InsightsSettle("A")
    \/ Resume("A")
    \/ Return("A")
    \/ UserResolveAlarm
    \/ UserDismissAlarm
    \/ Tick

Spec == Init /\ [][Next]_vars

\* Overlapping evaluateAllMonitors calls (two refreshes): a call may start
\* while another is suspended at an await.
NextOverlap ==
    \/ \E c \in Calls : StartEvaluateAll(c)
    \/ \E c \in Calls : InsightsSettle(c)
    \/ \E c \in Calls : Resume(c)
    \/ \E c \in Calls : Return(c)
    \/ UserResolveAlarm
    \/ UserDismissAlarm
    \/ Tick

SpecOverlap == Init /\ [][NextOverlap]_vars

\* One monitor, one sample: evaluateAllMonitors called again and again on the
\* values of a value scenario.
InitValues == InitWith(ValueScenarios)

NextValues ==
    \/ StartEvaluateAll("A")
    \/ InsightsSettle("A")
    \/ Resume("A")
    \/ Return("A")

SpecValues == InitValues /\ [][NextValues]_vars

\* A batch of two monitors: evaluateAllMonitors and evaluateMonitor called one
\* at a time, with reads of the metric source that may throw.
InitBatch == InitWith(BatchScenarios)

NextBatch ==
    \/ StartEvaluateAll("A")
    \/ StartEvaluateAllFails("A")
    \/ StartEvaluateMonitor("A")
    \/ StartEvaluateMonitorFails("A")
    \/ InsightsSettle("A")
    \/ Resume("A")
    \/ ResumeFails("A")
    \/ Return("A")
    \/ Reject("A")

SpecBatch == InitBatch /\ [][NextBatch]_vars

\* Refreshes one after the other: evaluateAllMonitors is called again only
\* after the call before it has returned, and nothing else writes the stores.
InitRefresh == InitWith(RefreshScenarios)

NextRefresh ==
    \/ StartEvaluateAll("A")
    \/ InsightsSettle("A")
    \/ Resume("A")
    \/ Return("A")
    \/ Tick

SpecRefresh == InitRefresh /\ [][NextRefresh]_vars

\* Overlapping refreshes: a second evaluateAllMonitors call may start while
\* the first is suspended at an await; nothing else writes the stores.
NextRefreshOverlap ==
    \/ \E c \in Calls : StartEvaluateAll(c)
    \/ \E c \in Calls : InsightsSettle(c)
    \/ \E c \in Calls : Resume(c)
    \/ \E c \in Calls : Return(c)
    \/ Tick

SpecRefreshOverlap == InitRefresh /\ [][NextRefreshOverlap]_vars

\* The alarm store as the dashboard summarizes it: refreshes one after the
\* other over two monitors, and the user dismissing alarms.
InitSummary == InitWith(SummaryScenarios)

NextSummary ==
    \/ StartEvaluateAll("A")
    \/ InsightsSettle("A")
    \/ Resume("A")
    \/ Return("A")
    \/ UserDismissAlarm

SpecSummary == InitSummary /\ [][NextSummary]_vars

\* =================================================================== claims
MonitorIds == {monitors[i].id : i \in 1..Len(monitors)}

\* the positions in the store al of the ACTIVE alarms of monitor m
ActiveAlarmsOf(al, m) ==
    {i \in 1..Len(al) : al[i].monitorId = m /\ al[i].state = "ACTIVE"}

AllIdle == \A c \in Calls : pc[c] = "idle"

\* C1: whenever no call is in progress (every evaluateMonitor,
\* evaluateAllMonitors, resolveAlarm and dismissAlarm call so far has
\* completed), each monitor has at most one ACTIVE alarm in the store.
C1_AtMostOneActiveAlarm ==
    AllIdle => \A m \in MonitorIds : Cardinality(ActiveAlarmsOf(alarms, m)) <= 1

\* every alarm that is ACTIVE for monitor m in this state is RESOLVED by
\* auto-resolve, with resolvedAt set, in the next state
AutoResolvedNext(m) ==
    \A i \in ActiveAlarmsOf(alarms, m) :
        /\ HasAlarm(alarms', alarms[i].id)
        /\ getAlarm(alarms', alarms[i].id).state = "RESOLVED"
        /\ getAlarm(alarms', alarms[i].id).resolutionMethod = "AUTO_RESOLVED"
        /\ getAlarm(alarms', alarms[i].id).resolvedAt # NoTime

\* the step completes an evaluateMonitor call of c that moved the stored state
\* of its monitor from IN_ALARM to OK
SingleCompletesToOK(c) ==
    /\ pc[c] = "idle" /\ pc'[c] = "done" /\ kind'[c] = "single"
    /\ local'[c].wasInAlarm /\ local'[c].state = "OK"

\* the step completes, within evaluateAllMonitors call c, the evaluation (with
\* its auto-resolve) of a monitor whose stored state it moved from IN_ALARM to OK
LoopCompletesToOK(c) ==
    /\ pc[c] = "returned" /\ Len(states'[c]) = Len(states[c]) + 1
    /\ local[c].wasInAlarm /\ local[c].state = "OK"

\* C2: when an evaluation, through evaluateMonitor or evaluateAllMonitors, has
\* moved a monitor from IN_ALARM to OK and completes, every alarm that was
\* ACTIVE for that monitor is RESOLVED, AUTO_RESOLVED, with resolvedAt set.
C2_AutoResolveComplete ==
    [][\A c \in Calls :
         /\ SingleCompletesToOK(c) => AutoResolvedNext(monitors[idx'[c]].id)
         /\ LoopCompletesToOK(c) => AutoResolvedNext(monitors[idx[c]].id)]_vars

\* the step runs evaluateMonitor, up to its first await, for call c
EvaluatesNow(c) ==
    \/ pc[c] = "idle" /\ pc'[c] \in {"insights", "returned"}
    \/ pc[c] = "idle" /\ pc'[c] = "done" /\ kind'[c] = "single"
    \/ pc[c] = "returned" /\ pc'[c] \in {"insights", "returned"}

\* generateAlarmInsights settles for call c in the step
SettlesNow(c) == pc[c] = "insights" /\ pc'[c] # "insights"

\* C3: an evaluation builds an alarm exactly when it moves the stored state of
\* its monitor from OK (or absent) to IN_ALARM, never on IN_ALARM -> IN_ALARM;
\* the store gains an alarm only when the insight call of such an evaluation
\* settles, and then gains exactly that alarm.
C3_AlarmIffTransition ==
    [][/\ \A c \in Calls :
            EvaluatesNow(c) =>
              LET m == monitors[idx'[c]].id
              IN  (local'[c].alarm.id # 0 /\ local'[c].alarm.monitorId = m /\ pc'[c] = "insights")
                  <=> (/\ getMonitorState(monitorStates, m).state # "IN_ALARM"
                       /\ getMonitorState(monitorStates', m).state = "IN_ALARM")
       /\ \A c \in Calls :
            SettlesNow(c) =>
              /\ Len(alarms') = Len(alarms) + 1
              /\ alarms'[Len(alarms')].id = local[c].alarm.id
              /\ alarms'[Len(alarms')].monitorId = monitors[idx[c]].id
       /\ Len(alarms') # Len(alarms) => \E c \in Calls : SettlesNow(c)]_vars

\* an evaluation found its monitor IN_ALARM, evaluated it IN_ALARM again and
\* returned without an alarm
C3_Witness ==
    \E c \in Calls :
        /\ pc[c] \in {"returned", "done"}
        /\ local[c].wasInAlarm /\ local[c].state = "IN_ALARM"
        /\ local[c].alarm.id = 0 /\ local[c].created = 0

\* call c is inside the evaluation-and-write of a monitor: evaluateMonitor has
\* read and written the monitor's state and has an alarm write or the
\* auto-resolve of that evaluation still to do
InEvaluation(c) == pc[c] \in {"insights", "returned"}

\* C4: under overlapping evaluateAllMonitors invocations, a call that is between
\* the state write and the alarm write of a monitor excludes every other call
\* from the evaluation-and-write of that monitor, and so no monitor ever has two
\* ACTIVE alarms.
C4_SerializedPerMonitor ==
    /\ \A c, d \in Calls :
          (c # d /\ pc[c] = "insights" /\ InEvaluation(d)) =>
              monitors[idx[c]].id # monitors[idx[d]].id
    /\ \A m \in MonitorIds : Cardinality(ActiveAlarmsOf(alarms, m)) <= 1

\* C5: while a call awaits generateAlarmInsights for a new alarm, that alarm is
\* already in the store.
C5_AlarmVisibleWhilePending ==
    \A c \in Calls : pc[c] = "insights" => HasAlarm(alarms, local[c].alarm.id)

\* C6: when generateAlarmInsights settles, rejected or not, the evaluation goes
\* on to return: the alarm is in the store, ACTIVE, it is the evaluation's
\* result, and evaluateAllMonitors puts it in newAlarms.
C6_EnrichmentFailureNotFatal ==
    [][\A c \in Calls :
         /\ SettlesNow(c) =>
              /\ HasAlarm(alarms', local[c].alarm.id)
              /\ getAlarm(alarms', local[c].alarm.id).state = "ACTIVE"
              /\ pc'[c] = (IF kind[c] = "all" THEN "returned" ELSE "done")
              /\ local'[c].created = local[c].alarm.id
         /\ (pc[c] = "returned" /\ local[c].created # 0 /\ Len(states'[c]) > Len(states[c])) =>
              \E k \in 1..Len(newAlarms'[c]) : newAlarms'[c][k] = local[c].created]_vars

\* a call has returned an alarm whose insight call was rejected: the alarm is
\* stored ACTIVE without insights
C6_Witness ==
    \E c \in Calls :
        /\ pc[c] = "done"
        /\ \E i \in 1..Len(alarms) :
             /\ alarms[i].state = "ACTIVE" /\ ~alarms[i].insights
             /\ \/ local[c].created = alarms[i].id
                \/ \E k \in 1..Len(newAlarms[c]) : newAlarms[c][k] = alarms[i].id

\* alarm id is stored and ACTIVE
IsActive(al, id) == HasAlarm(al, id) /\ getAlarm(al, id).state = "ACTIVE"

\* C7: in every reachable store, dismissAlarm and resolveAlarm (with either
\* method) on an id that is unknown, RESOLVED or DISMISSED leave the store as it
\* is, at any time of the call.
C7_NonActiveIsNoOp ==
    \A id \in 0..MaxAlarms :
        ~IsActive(alarms, id) =>
            \A now \in clock..MaxClock :
                /\ dismissAlarm(alarms, id, now) = alarms
                /\ resolveAlarm(alarms, id, "USER_ACTION", now) = alarms
                /\ resolveAlarm(alarms, id, "AUTO_RESOLVED", now) = alarms

\* an alarm was dismissed at an earlier time than now: a second dismissAlarm
\* that acted would change its resolvedAt
C7_Witness ==
    \E i \in 1..Len(alarms) :
        /\ alarms[i].state = "DISMISSED"
        /\ alarms[i].resolvedAt # NoTime /\ alarms[i].resolvedAt < clock

\* C8: an alarm that is RESOLVED or DISMISSED stays in the store in that state.
C8_TerminalStates ==
    [][\A i \in 1..Len(alarms) :
         alarms[i].state \in {"RESOLVED", "DISMISSED"} =>
            /\ HasAlarm(alarms', alarms[i].id)
            /\ getAlarm(alarms', alarms[i].id).state = alarms[i].state]_vars

\* a monitor has an alarm in a terminal state and a later ACTIVE one:
\* evaluations went on after the first alarm reached its terminal state
C8_Witness ==
    \E i, j \in 1..Len(alarms) :
        /\ i < j
        /\ alarms[i].state \in {"RESOLVED", "DISMISSED"}
        /\ alarms[j].state = "ACTIVE"
        /\ alarms[j].monitorId = alarms[i].monitorId

\* C9: every stored alarm has resolvedAt and resolutionMethod unset while
\* ACTIVE, DISMISSED with resolvedAt set once DISMISSED, and USER_ACTION or
\* AUTO_RESOLVED with resolvedAt set once RESOLVED.
C9_ResolutionFields ==
    \A i \in 1..Len(alarms) :
        /\ alarms[i].state \in {"ACTIVE", "RESOLVED", "DISMISSED"}
        /\ alarms[i].state = "ACTIVE" =>
             alarms[i].resolvedAt = NoTime /\ alarms[i].resolutionMethod = NoMethod
        /\ alarms[i].state = "DISMISSED" =>
             alarms[i].resolvedAt \in Times /\ alarms[i].resolutionMethod = "DISMISSED"
        /\ alarms[i].state = "RESOLVED" =>
             /\ alarms[i].resolvedAt \in Times
             /\ alarms[i].resolutionMethod \in {"USER_ACTION", "AUTO_RESOLVED"}

\* the store holds a DISMISSED alarm and an auto-resolved one
C9_Witness ==
    \E i, j \in 1..Len(alarms) :
        /\ alarms[i].state = "DISMISSED"
        /\ alarms[j].state = "RESOLVED" /\ alarms[j].resolutionMethod = "AUTO_RESOLVED"

\* the fields of an alarm that are fixed at its creation
Snapshot(a) ==
    <<a.severity, a.currentValue, a.expectedValue, a.deviationPercent,
      a.estimatedImpactUSD, a.triggeredAt>>

\* C10: a stored alarm stays in the store with its severity, currentValue,
\* expectedValue, deviationPercent, estimatedImpactUSD and triggeredAt.
C10_SnapshotFixed ==
    [][alarms' # alarms =>
         \A i \in 1..Len(alarms) :
            /\ HasAlarm(alarms', alarms[i].id)
            /\ Snapshot(getAlarm(alarms', alarms[i].id)) = Snapshot(alarms[i])]_vars

\* an alarm was resolved and its monitor evaluated since with another current
\* value: the alarm keeps the value it was created with
C10_Witness ==
    \E i \in 1..Len(alarms) :
        /\ alarms[i].state = "RESOLVED"
        /\ getMonitorState(monitorStates, alarms[i].monitorId).currentValue
             # alarms[i].currentValue
        /\ getMonitorState(monitorStates, alarms[i].monitorId).enteredStateAt
             > alarms[i].triggeredAt

\* ---- the value rules, checked on the inputs of a run and on what the
\* ---- evaluation stored from them
TheCurrent == CHOOSE v \in source.current : TRUE
TheExpected == CHOOSE v \in source.expected : TRUE

\* the tolerance of a sensitivity, in percent
TolerancePercent(sensitivity) ==
    IF sensitivity = "Strict" THEN 15 ELSE IF sensitivity = "Balanced" THEN 25 ELSE 40

\* |current - expected| / |expected| > percent / 100, for expected # 0
DeviatesMoreThan(current, expected, percent) ==
    Abs(current - expected) * 100 > percent * Abs(expected)

\* |current - expected| / |expected| >= percent / 100, for expected # 0
DeviatesAtLeast(current, expected, percent) ==
    Abs(current - expected) * 100 >= percent * Abs(expected)

\* the stored states of SIMPLE monitors
SimpleStates ==
    {i \in 1..Len(monitorStates) :
        \E j \in 1..Len(monitors) : /\ monitors[j].id = monitorStates[i].monitorId
                                    /\ monitors[j].monitorType = "SIMPLE"}

SensitivityOf(monitorId) ==
    monitors[CHOOSE j \in 1..Len(monitors) : monitors[j].id = monitorId].sensitivity

\* C11: for every sensitivity and every current and non-zero expected value,
\* isInAlarm is true exactly when |current - expected| / |expected| is
\* strictly greater than the tolerance (15, 25, 40 percent), and the stored
\* state of a SIMPLE monitor is IN_ALARM exactly then.
C11_ThresholdCorrect ==
    /\ TheExpected # 0 =>
         \A sensitivity \in Sensitivities :
            isInAlarm(TheCurrent, TheExpected, sensitivity)
              <=> DeviatesMoreThan(TheCurrent, TheExpected, TolerancePercent(sensitivity))
    /\ \A i \in SimpleStates :
         monitorStates[i].expectedValue # 0 =>
            (monitorStates[i].state = "IN_ALARM"
               <=> DeviatesMoreThan(monitorStates[i].currentValue,
                                    monitorStates[i].expectedValue,
                                    TolerancePercent(SensitivityOf(monitorStates[i].monitorId))))

\* expected 100, current 125 under Balanced was evaluated to OK
C11_Witness ==
    \E i \in SimpleStates :
        /\ monitorStates[i].currentValue = 125 /\ monitorStates[i].expectedValue = 100
        /\ SensitivityOf(monitorStates[i].monitorId) = "Balanced"
        /\ monitorStates[i].state = "OK"

\* C12: with an expected value of 0, calculateDeviation is 0 for the current
\* value, the sample breaches under no sensitivity, and a SIMPLE monitor is
\* evaluated to OK and gets no alarm, stored or under construction.
C12_ZeroBaseline ==
    /\ TheExpected = 0 =>
         /\ calculateDeviation(TheCurrent, TheExpected) = 0
         /\ \A sensitivity \in Sensitivities :
               ~isInAlarm(TheCurrent, TheExpected, sensitivity)
    /\ \A i \in SimpleStates :
         monitorStates[i].expectedValue = 0 =>
            /\ monitorStates[i].state = "OK"
            /\ \A k \in 1..Len(alarms) : alarms[k].monitorId # monitorStates[i].monitorId
            /\ \A c \in Calls : local[c].alarm.id = 0

\* a SIMPLE monitor with baseline 0 and the largest current value was evaluated
C12_Witness ==
    \E i \in SimpleStates :
        /\ monitorStates[i].expectedValue = 0
        /\ monitorStates[i].currentValue = MaxCurrent
        /\ AllIdle

\* the severity band of the deviation of current from expected # 0
SeverityBand(current, expected) ==
    IF DeviatesAtLeast(current, expected, 60) THEN "CRITICAL"
    ELSE IF DeviatesAtLeast(current, expected, 40) THEN "HIGH"
    ELSE IF DeviatesAtLeast(current, expected, 25) THEN "MEDIUM"
    ELSE "LOW"

\* C13: calculateSeverity of a deviation d is CRITICAL iff |d| >= 60, HIGH iff
\* 40 <= |d| < 60, MEDIUM iff 25 <= |d| < 40 and LOW iff |d| < 25, for the
\* deviation of the run's sample and for every stored alarm, whatever the
\* sensitivity of its monitor.
C13_SeverityBands ==
    /\ TheExpected # 0 =>
         calculateSeverity(calculateDeviation(TheCurrent, TheExpected))
           = SeverityBand(TheCurrent, TheExpected)
    /\ \A k \in 1..Len(alarms) :
         alarms[k].severity = SeverityBand(alarms[k].currentValue, alarms[k].expectedValue)

\* alarms at the inclusive lower bound of a band: +25 percent is MEDIUM
C13_Witness ==
    \E k \in 1..Len(alarms) :
        /\ alarms[k].deviationPercent = 25
        /\ alarms[k].severity = "MEDIUM"

\* C14: the estimated impact of the run's deviation is >= 0 for every metric
\* id and budget, and so is the estimatedImpactUSD of every stored alarm.
C14_ImpactNonNegative ==
    /\ \A metricId \in MetricIds, budget \in Budgets :
         calculateEstimatedImpact(Campaign(budget), [metricId |-> metricId],
                                  calculateDeviation(TheCurrent, TheExpected)) >= 0
    /\ \A k \in 1..Len(alarms) : alarms[k].estimatedImpactUSD >= 0

\* an alarm of a negative deviation has a positive impact
C14_Witness ==
    \E k \in 1..Len(alarms) :
        /\ alarms[k].deviationPercent < 0
        /\ alarms[k].estimatedImpactUSD > 0

\* the impact rule of a metric family, in thousandths of the budget per
\* percent of deviation; -1 where the rules name no amount
ImpactFactor(metricId, deviationPercent) ==
    CASE metricId = "cpa" -> IF deviationPercent > 0 THEN 10 ELSE -1
      [] metricId \in {"ctr", "cvr"} -> IF deviationPercent < 0 THEN 5 ELSE 0
      [] metricId \in {"impressions", "clicks"} -> IF deviationPercent < 0 THEN 3 ELSE 0
      [] metricId = "spend" -> 10
      [] metricId = "invalid_traffic" -> IF deviationPercent > 0 THEN 10 ELSE -1
      [] OTHER -> 2

FollowsImpactRule(impact, budget, metricId, deviationPercent) ==
    ImpactFactor(metricId, deviationPercent) >= 0 =>
        impact * 1000 = budget * Abs(deviationPercent)
                          * ImpactFactor(metricId, deviationPercent)

MetricOf(monitorId) ==
    monitors[CHOOSE j \in 1..Len(monitors) : monitors[j].id = monitorId].metricId

\* C15: the estimated impact follows the rule of the metric's family, for the
\* run's deviation under every metric id and for every stored alarm; the CPA
\* example (expected 30, current 42, budget 1000) gives 400 and HIGH, the CTR
\* example (expected 250, current 125, budget 1000) gives 250 and HIGH.
C15_ImpactRules ==
    /\ \A metricId \in MetricIds :
         LET d == calculateDeviation(TheCurrent, TheExpected)
         IN  FollowsImpactRule(
                 calculateEstimatedImpact(campaign, [metricId |-> metricId], d),
                 campaign.dailyBudget, metricId, d)
    /\ \A k \in 1..Len(alarms) :
         /\ FollowsImpactRule(alarms[k].estimatedImpactUSD, campaign.dailyBudget,
                              MetricOf(alarms[k].monitorId), alarms[k].deviationPercent)
         /\ (/\ campaign.dailyBudget = 1000 /\ MetricOf(alarms[k].monitorId) = "cpa"
             /\ alarms[k].expectedValue = 30 /\ alarms[k].currentValue = 42)
              => alarms[k].estimatedImpactUSD = 400 /\ alarms[k].severity = "HIGH"
         /\ (/\ campaign.dailyBudget = 1000 /\ MetricOf(alarms[k].monitorId) = "ctr"
             /\ alarms[k].expectedValue = 250 /\ alarms[k].currentValue = 125)
              => alarms[k].estimatedImpactUSD = 250 /\ alarms[k].severity = "HIGH"

\* the alarm of the CTR example is stored
C15_Witness ==
    \E k \in 1..Len(alarms) :
        /\ campaign.dailyBudget = 1000 /\ MetricOf(alarms[k].monitorId) = "ctr"
        /\ alarms[k].expectedValue = 250 /\ alarms[k].currentValue = 125
        /\ alarms[k].estimatedImpactUSD = 250

\* the last k samples of a sequence (all of them when it has fewer)
LastSamples(samples, k) ==
    SubSeq(samples, (IF Len(samples) > k THEN Len(samples) - k ELSE 0) + 1, Len(samples))

\* the window of a composite evaluation: the last m - 1 stored samples and the
\* current one
Window(samples, m, current) == Append(LastSamples(samples, m - 1), current)

\* how many samples of the window breach the tolerance around expected # 0
BreachesIn(window, expected, sensitivity) ==
    Cardinality({i \in 1..Len(window) :
                    DeviatesMoreThan(window[i], expected, TolerancePercent(sensitivity))})

\* the stored states of COMPOSITE monitors that have a configuration
CompositeStates ==
    {i \in 1..Len(monitorStates) :
        \E j \in 1..Len(monitors) : /\ monitors[j].id = monitorStates[i].monitorId
                                    /\ monitors[j].monitorType = "COMPOSITE"
                                    /\ monitors[j].compositeConfig # NoConfig}

ConfigOf(monitorId) ==
    monitors[CHOOSE j \in 1..Len(monitors) : monitors[j].id = monitorId].compositeConfig

\* C20: for a COMPOSITE monitor with window M >= 1 and required breaches N,
\* the evaluation counts the breaching samples among the last M - 1 stored
\* samples and the current one, stores the count as dataPointsBreached, never
\* more than M, and stores IN_ALARM exactly when the count is at least N.
C20_CompositeNofM ==
    /\ \A j \in 1..Len(monitors) :
         (monitors[j].monitorType = "COMPOSITE" /\ monitors[j].compositeConfig # NoConfig
            /\ TheExpected # 0) =>
            LET cfg == monitors[j].compositeConfig
                result == evaluateCompositeCondition(monitors[j], history, TheCurrent,
                                                     TheExpected)
                count == BreachesIn(Window(history, cfg.m, TheCurrent), TheExpected,
                                    monitors[j].sensitivity)
            IN  /\ result.count = count
                /\ result.count <= cfg.m
                /\ result.breached <=> count >= cfg.n
    /\ \A i \in CompositeStates :
         LET cfg == ConfigOf(monitorStates[i].monitorId)
             count == BreachesIn(Window(history, cfg.m, monitorStates[i].currentValue),
                                 monitorStates[i].expectedValue,
                                 SensitivityOf(monitorStates[i].monitorId))
         IN  /\ monitorStates[i].dataPointsBreached = count
             /\ monitorStates[i].dataPointsBreached <= cfg.m
             /\ monitorStates[i].state = "IN_ALARM" <=> count >= cfg.n

\* window 3, required 2, breach pattern [true, false, true]: stored IN_ALARM
\* with dataPointsBreached 2, out of a history with one more breaching sample
C20_Witness ==
    \E i \in CompositeStates :
        /\ ConfigOf(monitorStates[i].monitorId) = [n |-> 2, m |-> 3]
        /\ history = <<126, 126, 100>>
        /\ monitorStates[i].currentValue = 126
        /\ monitorStates[i].state = "IN_ALARM"
        /\ monitorStates[i].dataPointsBreached = 2

\* ---- batches: failures of the metric source, skipped monitors
\* the ids in the result list of states of call c
EvaluatedBy(c) == {states[c][k] : k \in 1..Len(states[c])}

\* the stored alarms of a monitor, in store order
AlarmsOf(al, monitorId) == SelectSeq(al, LAMBDA a : a.monitorId = monitorId)

\* C16: when an evaluateAllMonitors call has ended, by returning or after a
\* failed read of the metric source for one monitor, every other enabled
\* monitor of the list has been evaluated by the call.
C16_FailureIsolated ==
    \A c \in Calls :
        (kind[c] = "all" /\ pc[c] \in {"done", "rejected"}) =>
            \A j \in 1..Len(monitors) :
                (monitors[j].enabled /\ ~(pc[c] = "rejected" /\ j = idx[c])) =>
                    monitors[j].id \in EvaluatedBy(c)

\* the step ends call c with a read of the metric source that threw
FailsNow(c) == pc[c] # "rejected" /\ pc'[c] = "rejected"

\* the step is an evaluation by call c whose read of the stored samples failed
SamplesUnreadNow(c) == EvaluatesNow(c) /\ local'[c].samplesUnread

\* C17: a step in which the evaluation of a monitor meets a failed read of the
\* metric source (current value, expected value, or the stored samples of a
\* composite monitor) leaves the stored MonitorState of that monitor and all
\* of its alarms as they were.
C17_FailureLeavesStateUntouched ==
    [][\A c \in Calls :
         (FailsNow(c) \/ SamplesUnreadNow(c)) =>
            LET m == monitors[idx'[c]].id
            IN  /\ getMonitorState(monitorStates', m) = getMonitorState(monitorStates, m)
                /\ AlarmsOf(alarms', m) = AlarmsOf(alarms, m)]_vars

\* a COMPOSITE monitor without its window configuration
MissingConfig(monitor) ==
    monitor.monitorType = "COMPOSITE" /\ monitor.compositeConfig = NoConfig

\* the step belongs to an evaluateAllMonitors call c
StepOfEvaluateAll(c) ==
    \/ pc[c] = "idle" /\ pc'[c] # "idle" /\ kind'[c] = "all"
    \/ pc[c] \in {"insights", "returned"} /\ kind[c] = "all"

\* the step leaves the stored state and the alarms of monitor m as they are,
\* and builds no alarm for it
Untouched(m) ==
    /\ getMonitorState(monitorStates', m) = getMonitorState(monitorStates, m)
    /\ AlarmsOf(alarms', m) = AlarmsOf(alarms, m)
    /\ \A c \in Calls : local'[c].alarm.id # 0 => local'[c].alarm.monitorId # m

\* C18: no step of an evaluateAllMonitors call writes a MonitorState or builds
\* an alarm for a COMPOSITE monitor whose compositeConfig is missing.
C18_MissingConfigSkipped ==
    [][\A c \in Calls :
         StepOfEvaluateAll(c) =>
            \A j \in 1..Len(monitors) :
                MissingConfig(monitors[j]) => Untouched(monitors[j].id)]_vars

\* the ids of the enabled monitors, in list order
RECURSIVE EnabledIds(_)
EnabledIds(list) ==
    IF list = <<>> THEN <<>>
    ELSE (IF Head(list).enabled THEN <<Head(list).id>> ELSE <<>>) \o EnabledIds(Tail(list))

\* C19: no step of an evaluateAllMonitors call changes the stored state or
\* the alarms of a monitor with enabled = false, and the states the call
\* returns are those of the enabled monitors, one each.
C19_OnlyEnabledEvaluated ==
    [][\A c \in Calls :
         StepOfEvaluateAll(c) =>
            /\ \A j \in 1..Len(monitors) :
                  ~monitors[j].enabled => Untouched(monitors[j].id)
            /\ pc'[c] = "done" => states'[c] = EnabledIds(monitors)]_vars

\* an evaluateAllMonitors call has returned one state while a disabled
\* monitor of its list is stored IN_ALARM with an ACTIVE alarm
C19_Witness ==
    \E c \in Calls, j \in 1..Len(monitors) :
        /\ pc[c] = "done" /\ kind[c] = "all" /\ Len(states[c]) = 1
        /\ ~monitors[j].enabled
        /\ getMonitorState(monitorStates, monitors[j].id).state = "IN_ALARM"
        /\ ActiveAlarmsOf(alarms, monitors[j].id) # {}

\* the stored state of the monitor that call c evaluates in the step, before
\* and after the step
PriorState(c) == getMonitorState(monitorStates, monitors[idx'[c]].id)
StoredState(c) == getMonitorState(monitorStates', monitors[idx'[c]].id)

\* C21: for every kind of monitor, an evaluation that computes the state its
\* monitor already had stored keeps the stored enteredStateAt.
C21_EnteredStateAtStable ==
    [][\A c \in Calls :
         (EvaluatesNow(c) /\ StoredState(c).state = PriorState(c).state)
           => StoredState(c).enteredStateAt = PriorState(c).enteredStateAt]_vars

\* C22: for every kind of monitor, an evaluation that changes the stored state
\* of its monitor (OK -> IN_ALARM, IN_ALARM -> OK, or no state stored before)
\* stores the time of the evaluation as enteredStateAt.
C22_EnteredStateAtReset ==
    [][\A c \in Calls :
         (EvaluatesNow(c) /\ StoredState(c).state # PriorState(c).state)
           => StoredState(c).enteredStateAt = clock]_vars

\* the kind of the monitor that call c evaluates in the step
KindEvaluated(c) == monitors[idx'[c]].monitorType

\* the aggregate current value breaches the tolerance of the monitor
AggregateBreaches(state) ==
    /\ state.expectedValue # 0
    /\ DeviatesMoreThan(state.currentValue, state.expectedValue,
                        TolerancePercent(SensitivityOf(state.monitorId)))

\* C23: an evaluation of a SIMPLE or GRANULAR monitor stores IN_ALARM exactly
\* when the aggregate current value breaches the threshold, and builds an
\* alarm exactly when it does and the monitor was not IN_ALARM before,
\* whatever the per-dimension results of a GRANULAR monitor are.
C23_AggregateDecides ==
    [][\A c \in Calls :
         (EvaluatesNow(c) /\ KindEvaluated(c) \in {"SIMPLE", "GRANULAR"}) =>
            /\ StoredState(c).state = "IN_ALARM" <=> AggregateBreaches(StoredState(c))
            /\ StoredState(c).state = "OK" <=> ~AggregateBreaches(StoredState(c))
            /\ local'[c].alarm.id # 0
                  <=> (AggregateBreaches(StoredState(c)) /\ PriorState(c).state # "IN_ALARM")]_vars

\* a GRANULAR monitor was evaluated with a breaching dimension and an
\* aggregate value within tolerance: it is OK and no alarm exists
C23_Witness ==
    /\ pc["A"] = "done" /\ alarms = <<>>
    /\ \E i \in 1..Len(monitors) :
          /\ monitors[i].monitorType = "GRANULAR"
          /\ getMonitorState(monitorStates, monitors[i].id).state = "OK"
          /\ \E d \in 1..Len(Devices) :
                getMonitorState(monitorStates, monitors[i].id).dimensions[d].inAlarm

\* a stored state of a Loose monitor whose deviation is just above the
\* tolerance: more than 40 and at most 45 percent
LooseJustAbove(state) ==
    /\ SensitivityOf(state.monitorId) = "Loose"
    /\ state.expectedValue # 0
    /\ DeviatesMoreThan(state.currentValue, state.expectedValue, TolerancePercent("Loose"))
    /\ ~DeviatesMoreThan(state.currentValue, state.expectedValue, TolerancePercent("Loose") + 5)

\* the alarms of monitor m: stored, or built and waiting for the insights
AlarmsBuiltFor(m) ==
    {alarms[k] : k \in {k \in 1..Len(alarms) : alarms[k].monitorId = m}}
      \cup {local[c].alarm : c \in {c \in Calls : /\ local[c].alarm.id # 0
                                                   /\ local[c].alarm.monitorId = m}}

\* a Loose monitor just above its tolerance is IN_ALARM, has an alarm, and
\* every alarm of it has the given severity
LooseJustAboveGets(severity) ==
    \A i \in SimpleStates :
        LooseJustAbove(monitorStates[i]) =>
           /\ monitorStates[i].state = "IN_ALARM"
           /\ AlarmsBuiltFor(monitorStates[i].monitorId) # {}
           /\ \A a \in AlarmsBuiltFor(monitorStates[i].monitorId) : a.severity = severity

EvaluatesMonitor(c, m) == EvaluatesNow(c) /\ monitors[idx'[c]].id = m

\* in the step, call c saves the alarm it built for monitor m, or (in
\* evaluateAllMonitors, after the evaluation of m returned) auto-resolves for m
FinishesMonitor(c, m) ==
    /\ monitors[idx[c]].id = m
    /\ SettlesNow(c) \/ pc[c] = "returned"

\* C25: the evaluation of a monitor reads only the stored state of that
\* monitor and writes only that state and the alarms of that monitor: the
\* stored state and the alarms of every other monitor stay as they were.
C25_MonitorsIndependent ==
    [][/\ \A m \in MonitorIds :
            /\ getMonitorState(monitorStates', m) # getMonitorState(monitorStates, m)
                  => \E c \in Calls : EvaluatesMonitor(c, m)
            /\ AlarmsOf(alarms', m) # AlarmsOf(alarms, m)
                  => \E c \in Calls : FinishesMonitor(c, m)
       /\ \A c \in Calls :
            EvaluatesNow(c) =>
              /\ local'[c].wasInAlarm = (PriorState(c).state = "IN_ALARM")
              /\ StoredState(c).enteredStateAt \in {clock, PriorState(c).enteredStateAt}
              /\ local'[c].alarm.id # 0 => local'[c].alarm.monitorId = monitors[idx'[c]].id]_vars

\* the first monitor of the list went back to OK and its alarm was
\* auto-resolved while the alarm of the second, still IN_ALARM, is ACTIVE
C25_Witness ==
    /\ Len(monitors) = 2
    /\ getMonitorState(monitorStates, monitors[1].id).state = "OK"
    /\ getMonitorState(monitorStates, monitors[2].id).state = "IN_ALARM"
    /\ \E k \in 1..Len(alarms) : /\ alarms[k].monitorId = monitors[1].id
                                 /\ alarms[k].resolutionMethod = "AUTO_RESOLVED"
    /\ ActiveAlarmsOf(alarms, monitors[2].id) # {}

\* C26: with evaluateAllMonitors calls one after the other over a fixed list
\* of enabled monitors and no other writer, when a call has returned every
\* monitor is IN_ALARM exactly when it has exactly one ACTIVE alarm, and OK
\* exactly when it has none.
C26_SequentialConsistency ==
    pc["A"] = "done" =>
       \A i \in 1..Len(monitors) :
          LET m == monitors[i].id
              active == Cardinality(ActiveAlarmsOf(alarms, m))
          IN  /\ getMonitorState(monitorStates, m).state = "IN_ALARM" <=> active = 1
              /\ getMonitorState(monitorStates, m).state = "OK" <=> active = 0

\* a second call has returned: the monitor had gone back to OK, its first
\* alarm was auto-resolved, and it is IN_ALARM again with one ACTIVE alarm
C26_Witness ==
    /\ pc["A"] = "done"
    /\ \E i \in 1..Len(monitors) :
          /\ getMonitorState(monitorStates, monitors[i].id).state = "IN_ALARM"
          /\ Cardinality(ActiveAlarmsOf(alarms, monitors[i].id)) = 1
          /\ \E k \in 1..Len(alarms) : /\ alarms[k].monitorId = monitors[i].id
                                       /\ alarms[k].resolutionMethod = "AUTO_RESOLVED"

\* C27: when evaluateAllMonitors calls overlapped and all have returned, no
\* monitor whose stored state is OK still has an ACTIVE alarm (no stale
\* alarm), and every monitor whose stored state is IN_ALARM still has its
\* ACTIVE alarm: it was not auto-resolved (no lost alarm).
C27_NoStaleOrLostAlarm ==
    AllIdle =>
       \A i \in 1..Len(monitors) :
          LET m == monitors[i].id
          IN  /\ getMonitorState(monitorStates, m).state = "OK"
                    => ActiveAlarmsOf(alarms, m) = {}
              /\ getMonitorState(monitorStates, m).state = "IN_ALARM"
                    => ActiveAlarmsOf(alarms, m) # {}

\* C28: every alarm ever created, for a monitor of any kind, COMPOSITE
\* included, records a breaching snapshot: |deviationPercent| / 100 is
\* strictly greater than the tolerance of the sensitivity of its monitor.
C28_AlarmSnapshotBreaches ==
    \A i \in 1..Len(monitors) :
       \A a \in AlarmsBuiltFor(monitors[i].id) :
          Abs(a.deviationPercent) > TolerancePercent(monitors[i].sensitivity)

\* the rank of a severity
SeverityRank(severity) ==
    CASE severity = "LOW" -> 1
      [] severity = "MEDIUM" -> 2
      [] severity = "HIGH" -> 3
      [] severity = "CRITICAL" -> 4

\* the least severity an alarm of a monitor of the sensitivity can have
SeverityFloor(sensitivity) ==
    IF sensitivity = "Loose" THEN "HIGH"
    ELSE IF sensitivity = "Balanced" THEN "MEDIUM" ELSE "LOW"

\* C29: every alarm of a SIMPLE or GRANULAR monitor has severity at least
\* MEDIUM when the monitor is Balanced and at least HIGH when it is Loose;
\* LOW occurs only under Strict.
C29_SeverityFloor ==
    \A i \in 1..Len(monitors) :
       monitors[i].monitorType \in {"SIMPLE", "GRANULAR"} =>
          \A a \in AlarmsBuiltFor(monitors[i].id) :
             /\ SeverityRank(a.severity) >= SeverityRank(SeverityFloor(monitors[i].sensitivity))
             /\ a.severity = "LOW" => monitors[i].sensitivity = "Strict"

\* the floor is met: the stored alarm of a Balanced GRANULAR monitor, with its
\* per-device breakdown, is MEDIUM
C29_Witness ==
    \E k \in 1..Len(alarms) :
       LET monitor == monitors[CHOOSE j \in 1..Len(monitors) :
                                  monitors[j].id = alarms[k].monitorId]
       IN  /\ monitor.monitorType = "GRANULAR"
           /\ monitor.sensitivity = "Balanced"
           /\ alarms[k].severity = "MEDIUM"
           /\ alarms[k].dimensionalBreakdown # NoDimensions

\* the number of stored alarms that are ACTIVE with the given severity
ActiveWith(severity) ==
    Cardinality({k \in 1..Len(alarms) : /\ alarms[k].state = "ACTIVE"
                                        /\ alarms[k].severity = severity})

\* C30: getAlarmSummary(alarms) counts in critical, high, medium and low the
\* ACTIVE alarms only, each ACTIVE alarm in exactly one of them by its
\* severity, and in healthy the alarms that are not ACTIVE, so that the five
\* counts add up to the number of alarms.
C30_SummaryCounts ==
    LET summary == getAlarmSummary(alarms)
    IN  /\ summary.critical = ActiveWith("CRITICAL")
        /\ summary.high = ActiveWith("HIGH")
        /\ summary.medium = ActiveWith("MEDIUM")
        /\ summary.low = ActiveWith("LOW")
        /\ summary.healthy = Cardinality({k \in 1..Len(alarms) : alarms[k].state # "ACTIVE"})
        /\ summary.critical + summary.high + summary.medium + summary.low
              = Cardinality({k \in 1..Len(alarms) : alarms[k].state = "ACTIVE"})
        /\ summary.critical + summary.high + summary.medium + summary.low + summary.healthy
              = Len(alarms)

\* the store holds a dismissed CRITICAL alarm and an ACTIVE LOW alarm: the
\* summary counts one low and one healthy, and no critical
C30_Witness ==
    /\ Len(alarms) = 2
    /\ \E k \in 1..Len(alarms) : alarms[k].state = "DISMISSED" /\ alarms[k].severity = "CRITICAL"
    /\ \E k \in 1..Len(alarms) : alarms[k].state = "ACTIVE" /\ alarms[k].severity = "LOW"
    /\ getAlarmSummary(alarms) =
          [critical |-> 0, high |-> 0, medium |-> 0, low |-> 1, healthy |-> 1]
====
